---- MODULE Spec2Model ----
(***************************************************************************)
(* continue-js: the continuation registry (canContinueWith), the record    *)
(* constructors (continueWith, dontContinue), the dispatcher (continueNow) *)
(* and the configuration (configureContinue) of                            *)
(* packages/continue-js/src/index.ts, with the sample drivers.             *)
(*                                                                         *)
(* JavaScript values are modelled as follows.  A string is a TLA+ string;  *)
(* `undefined` where a string is expected is the sentinel Undefined.  The  *)
(* truthiness tests of the source (!cfn.continuationId,                    *)
(* resolved.continuationId) are Truthy: neither undefined nor ''.          *)
(* An `args` value is a record [kind, items]: an array, an array-like      *)
(* `arguments` object, a plain object, or undefined.                       *)
(***************************************************************************)
EXTENDS Naturals, Sequences, FiniteSets, TLC

\* ------------------------------------------------------------------ bounds

\* Longest argument list passed to continueWith.
MaxArgs == 2
\* Deepest call stack captured by `new Error()` (Error.stackTraceLimit).
MaxStack == 2
\* The count of functionNotFound calls of one continueNow call saturates here.
MaxRedirects == 2

\* The longest chain of unresolved redirects a functionNotFound answers with
\* before it answers with its final continuation.
MaxChain == 4

\* ------------------------------------------------------- JavaScript values

Undefined == "<undefined>"

Truthy(s) == s # Undefined /\ s # ""

\* The function objects the application defines: two functions declared with
\* the same name in different modules.
Units == {1, 2}

\* The functions of the echo bot sample (continuations.js).
StartContinuation == 3
NamePromptContinuation == 4
EchoUnits == {StartContinuation, NamePromptContinuation}

\* The functions of the README's bot.
PromptForNameContinuation == 5
NamePromptResponseContinuation == 6
BotUnits == {PromptForNameContinuation, NamePromptResponseContinuation}

\* Every function object of the process.
Functions == Units \cup EchoUnits \cup BotUnits

\* fn.name
FnName(u) ==
    IF u = StartContinuation THEN "startContinuation"
    ELSE IF u = NamePromptContinuation THEN "namePromptContinuation"
    ELSE IF u = PromptForNameContinuation THEN "promptForNameContinuation"
    ELSE IF u = NamePromptResponseContinuation THEN "namePromptResponseContinuation"
    ELSE "f"

\* The argument lists passed to continueWith: the values "a1", "a2", ... in
\* this order, cut at every length up to MaxArgs.
ArgName(i) == IF i = 1 THEN "a1" ELSE IF i = 2 THEN "a2" ELSE IF i = 3 THEN "a3" ELSE "a4"

ArgLists == {[i \in 1 .. n |-> ArgName(i)] : n \in 0 .. MaxArgs}

ArgsUndefined == [kind |-> "undefined", items |-> <<>>]
Arr(items) == [kind |-> "array", items |-> items]

\* The context object the driver passes to continueNow (opaque to the library).
Contexts == {"ctx"}

\* ------------------------------------------------------------ call stacks

\* The file of index.ts itself, an application file, and a frame without a
\* file name (getFileName() returns null).
LibFile == "index.js"
AppFile == "app.js"
NoFile == "<null>"

RECURSIVE FramesUpTo(_, _)
FramesUpTo(n, files) ==
    IF n = 0 THEN {<<>>}
    ELSE LET shorter == FramesUpTo(n - 1, files)
         IN  shorter \cup {Append(s, f) : s \in {t \in shorter : Len(t) = n - 1}, f \in files}

\* The stack `new Error()` captures inside canContinueWith: empty when
\* Error.stackTraceLimit is 0, else its first frame is canContinueWith's own
\* and the frames of its callers follow; index.ts itself holds no caller.
Stacks == {<<>>} \cup {<<LibFile>> \o s : s \in FramesUpTo(MaxStack - 1, {AppFile, NoFile})}

\* The stacks of an application that also calls canContinueWith from the
\* file that holds it: a bundle, or a helper beside index.ts.
BundledStacks ==
    {<<>>} \cup {<<LibFile>> \o s : s \in FramesUpTo(MaxStack, {LibFile, AppFile, NoFile})}

\* stack.shift()?.getFileName() ?? ''
FileNameOf(frame) == IF frame = NoFile THEN "" ELSE frame

CurrentFile(stack) == IF stack = <<>> THEN "" ELSE FileNameOf(Head(stack))

\* let callerfile = ''; while (stack.length) { callerfile = shift; if (currentfile !== callerfile) break; }
RECURSIVE WalkStack(_, _, _)
WalkStack(currentfile, callerfile, stack) ==
    IF stack = <<>> THEN callerfile
    ELSE LET next == FileNameOf(Head(stack))
         IN  IF currentfile # next THEN next
             ELSE WalkStack(currentfile, next, Tail(stack))

CallerFile(stack) ==
    IF stack = <<>> THEN ""
    ELSE WalkStack(CurrentFile(stack), "", Tail(stack))

\* ----------------------------------------------------------- configuration

\* getContinuationId implementations: the default of index.ts and a custom
\* one that keys on the file alone ((fileName, functionName) => fileName).
IdPolicies == {"default", "fileOnly"}

\* A custom getContinuationId that throws; the assignment of line 85 is then
\* not made and the error leaves canContinueWith through its finally.
ThrowingPolicy == "throws"

GetContinuationId(policy, fileName, functionName) ==
    IF policy = "default" THEN fileName \o "#" \o functionName
    ELSE fileName

\* functionNotFound implementations: the default of index.ts (throws), the
\* README's redirect to an error continuation, one that ends the chain and
\* one that answers with an identifier nobody registered.
NotFoundHandlers == {"default", "toError", "toDone", "toMissing"}

ErrorUnit == 1
MissingId == "missing"

DefaultConfig == [getContinuationId |-> "default", functionNotFound |-> "default"]


\* ------------------------------------------------------------------ records

\* A Continuation: { done, continuationId?, args? }.
Rec(done, id, args) == [done |-> done, continuationId |-> id, args |-> args]

\* Mutant: the record carries an empty argument list.
DontContinueWithArgs == Rec(TRUE, Undefined, Arr(<<>>))

\* dontContinue(): Promise.resolve({ done: true })
DontContinue == Rec(TRUE, Undefined, ArgsUndefined)

\* Mutant: the registration check is missing.
ContinueWithUnchecked(fn, args, ids) ==
    [outcome |-> "ok", result |-> Rec(FALSE, ids[fn], Arr(args))]

\* Mutant: the record holds the `arguments` object instead of the rest array.
ContinueWithArgumentsObject(fn, args, ids) ==
    IF ~Truthy(ids[fn])
    THEN [outcome |-> "unregistered", result |-> DontContinue]
    ELSE [outcome |-> "ok",
          result |-> Rec(FALSE, ids[fn], [kind |-> "arguments", items |-> args])]

\* continueWith(fn, ...args): throws unless fn.continuationId is truthy, else
\* resolves to { done: false, continuationId: fn.continuationId, args: args }.
ContinueWith(fn, args, ids) ==
    IF ~Truthy(ids[fn])
    THEN [outcome |-> "unregistered", result |-> DontContinue]
    ELSE [outcome |-> "ok", result |-> Rec(FALSE, ids[fn], Arr(args))]

\* --------------------------------------------------------------- registry

EmptyTable == [id \in {} |-> 0]

Has(table, id) == id \in DOMAIN table

\* Mutant: the identifier is set in the table even when it is a key already.
CanContinueWithOverwrites(fn, stack, table, ids, cfg) ==
    LET callerfile == CallerFile(stack)
    IN  IF Truthy(ids[fn])
        THEN [outcome |-> "duplicate", table |-> table, ids |-> ids]
        ELSE LET id == GetContinuationId(cfg.getContinuationId, callerfile, FnName(fn))
                 ids2 == [ids EXCEPT ![fn] = id]
             IN  IF ~Has(table, id)
                 THEN [outcome |-> "ok", table |-> (id :> fn) @@ table, ids |-> ids2]
                 ELSE [outcome |-> "collision", table |-> (id :> fn) @@ table, ids |-> ids2]

\* Mutant: the identifier also counts the functions registered before.
CanContinueWithCounted(fn, stack, table, ids, cfg) ==
    LET callerfile == CallerFile(stack)
    IN  IF Truthy(ids[fn])
        THEN [outcome |-> "duplicate", table |-> table, ids |-> ids]
        ELSE LET id == GetContinuationId(cfg.getContinuationId, callerfile, FnName(fn))
                           \o (IF table = EmptyTable THEN "" ELSE "+")
                 ids2 == [ids EXCEPT ![fn] = id]
             IN  IF ~Has(table, id)
                 THEN [outcome |-> "ok", table |-> (id :> fn) @@ table, ids |-> ids2]
                 ELSE [outcome |-> "collision", table |-> table, ids |-> ids2]

\* canContinueWith(fn), called with the captured stack: the new value of
\* _continuations and of every fn.continuationId, and how the call ended.
CanContinueWith(fn, stack, table, ids, cfg) ==
    LET callerfile == CallerFile(stack)
    IN  IF Truthy(ids[fn])
        THEN [outcome |-> "duplicate", table |-> table, ids |-> ids]
        ELSE IF cfg.getContinuationId = ThrowingPolicy
        THEN [outcome |-> "policyError", table |-> table, ids |-> ids]
        ELSE LET id == GetContinuationId(cfg.getContinuationId, callerfile, FnName(fn))
                 ids2 == [ids EXCEPT ![fn] = id]
             IN  IF ~Has(table, id)
                 THEN [outcome |-> "ok", table |-> (id :> fn) @@ table, ids |-> ids2]
                 ELSE [outcome |-> "collision", table |-> table, ids |-> ids2]

\* Mutant: the hook is put back only when the registration succeeded.
FinallyOnSuccess(originalFunc, installed, outcome) ==
    IF outcome = "ok" THEN originalFunc ELSE installed

\* finally { Error.prepareStackTrace = originalFunc }: the value of the hook
\* when canContinueWith is left, however the try block ended.
Finally(originalFunc, installed, outcome) == originalFunc

\* Mutant: the override is merged into the defaults, not into _config.
ConfigureContinueFromDefaults(cfg, partial) ==
    [getContinuationId |-> IF partial.getContinuationId = Undefined
                           THEN DefaultConfig.getContinuationId ELSE partial.getContinuationId,
     functionNotFound  |-> IF partial.functionNotFound = Undefined
                           THEN DefaultConfig.functionNotFound ELSE partial.functionNotFound]

\* configureContinue(config): _config = {..._config, ...config}; a key the
\* partial override does not name is Undefined here.
ConfigureContinue(cfg, partial) ==
    [getContinuationId |-> IF partial.getContinuationId = Undefined
                           THEN cfg.getContinuationId ELSE partial.getContinuationId,
     functionNotFound  |-> IF partial.functionNotFound = Undefined
                           THEN cfg.functionNotFound ELSE partial.functionNotFound]

Partials ==
    [getContinuationId : IdPolicies \cup {Undefined},
     functionNotFound : NotFoundHandlers \cup {Undefined}]

\* ------------------------------------------------------------- dispatcher

\* What a continuation function does when it is invoked: it ends the chain
\* (return dontContinue()), chains to fn (return continueWith(fn, ...args)),
\* or throws.
Behaviour(kind, fn, args) == [kind |-> kind, fn |-> fn, args |-> args]

\* The arguments a continuation function chains with.
ChainArgs == <<"b1">>

Behaviours ==
    {Behaviour("done", 0, <<>>), Behaviour("throw", 0, <<>>)}
        \cup {Behaviour("with", v, ChainArgs) : v \in Units}

\* The body of an invoked continuation function.
RunUnit(beh, ids) ==
    IF beh.kind = "done" THEN [outcome |-> "ok", result |-> DontContinue]
    ELSE IF beh.kind = "throw" THEN [outcome |-> "unitError", result |-> DontContinue]
    ELSE ContinueWith(beh.fn, beh.args, ids)

\* [context, ...resolved.args ?? []]: undefined spreads as [], an array or an
\* arguments object as its items, a plain object is not iterable.
Spread(args) ==
    IF args.kind = "object" THEN [ok |-> FALSE, items |-> <<>>]
    ELSE [ok |-> TRUE, items |-> args.items]

\* The continuation a functionNotFound that ends the chain resolves to: done,
\* with a note for the caller in args.
TerminalRedirect == Rec(TRUE, Undefined, Arr(<<"bye">>))

\* functionNotFound implementations that answer an unresolved continuation
\* with another unresolved one, one argument shorter, until the arguments are
\* used up, and then with a final continuation: one with done = true, one
\* without identifier, or a continuation to the error function.
ChainHandlers == {"chainToDone", "chainToNoId", "chainToError"}

\* Mutant: the default handler ends the chain instead of throwing.
FunctionNotFoundSwallows(handler, resolved, context, ids) ==
    IF handler = "default" THEN [outcome |-> "ok", result |-> DontContinue]
    ELSE IF handler = "toError" THEN ContinueWith(ErrorUnit, <<>>, ids)
    ELSE IF handler = "toDone" THEN [outcome |-> "ok", result |-> TerminalRedirect]
    ELSE [outcome |-> "ok", result |-> Rec(FALSE, MissingId, Arr(<<>>))]

\* _config.functionNotFound(resolved, context)
FunctionNotFound(handler, resolved, context, ids) ==
    IF handler = "default" THEN [outcome |-> "notFound", result |-> DontContinue]
    ELSE IF handler \in ChainHandlers /\ resolved.args.items # <<>>
    THEN [outcome |-> "ok",
          result |-> Rec(FALSE, MissingId, Arr(Tail(resolved.args.items)))]
    ELSE IF handler = "chainToDone" THEN [outcome |-> "ok", result |-> TerminalRedirect]
    ELSE IF handler = "chainToNoId"
    THEN [outcome |-> "ok", result |-> Rec(FALSE, Undefined, Arr(<<>>))]
    ELSE IF handler = "chainToError" THEN ContinueWith(ErrorUnit, <<>>, ids)
    ELSE IF handler = "toError" THEN ContinueWith(ErrorUnit, <<>>, ids)
    ELSE IF handler = "toDone" THEN [outcome |-> "ok", result |-> TerminalRedirect]
    ELSE [outcome |-> "ok", result |-> Rec(FALSE, MissingId, Arr(<<>>))]

\* Mutant: only `done` is tested, the identifier is not.
IsTerminalIgnoresIdentifier(resolved) == resolved.done

\* Mutant: only the identifier is tested, `done` is not.
IsTerminalIgnoresDone(resolved) == ~Truthy(resolved.continuationId)

\* if (!resolved.done && resolved.continuationId) ... else dontContinue()
IsTerminal(resolved) == resolved.done \/ ~Truthy(resolved.continuationId)

Invocation(fn, ctx, items) == [fn |-> fn, ctx |-> ctx, args |-> items]

NotFoundCall(resolved, ctx) == [continuation |-> resolved, ctx |-> ctx]

NoBehaviour == Behaviour("none", 0, <<>>)

NoOrigin == [from |-> "", fn |-> 0, args |-> <<>>, invoked |-> <<>>]

\* The state of a continueNow call.
\*   pc       idle, running, returned (the promise resolved to `result`) or
\*            failed (it rejected with `error`)
\*   first    the continuation the caller passed
\*   cont     the continuation being resolved (a redirect, after recursion)
\*   invoked  the continuation functions invoked so far, with their arguments
\*   nfCount  functionNotFound calls so far (saturating), nfFirst the first
\*   ret      what the invoked function did
\*   from, fn, args   history: where `first` came from
\*   prev     history: the call that returned `first`, for a chained call
IdleCall ==
    [pc |-> "idle", first |-> DontContinue, cont |-> DontContinue, ctx |-> "",
     invoked |-> <<>>, nfCount |-> 0, nfFirst |-> NotFoundCall(DontContinue, ""),
     result |-> DontContinue, error |-> "", errorId |-> "", ret |-> NoBehaviour,
     from |-> "", fn |-> 0, args |-> <<>>, prev |-> NoOrigin]

StartCall(record, ctx, from, fn, args) ==
    [IdleCall EXCEPT !.pc = "running", !.first = record, !.cont = record,
                     !.ctx = ctx, !.from = from, !.fn = fn, !.args = args]

Min(a, b) == IF a < b THEN a ELSE b

\* Mutant: continueNow goes on to execute the continuation the function returned.
ApplyRunsReturned(c, cfn, resolved, ids, beh) ==
    LET spread == Spread(resolved.args)
        run == RunUnit(beh, ids)
    IN  IF ~spread.ok
        THEN [c EXCEPT !.pc = "failed", !.error = "typeError"]
        ELSE IF run.outcome = "ok" /\ run.result.done
        THEN [c EXCEPT !.pc = "returned", !.result = run.result, !.ret = beh,
                       !.invoked = Append(@, Invocation(cfn, c.ctx, spread.items))]
        ELSE IF run.outcome = "ok"
        THEN [c EXCEPT !.cont = run.result, !.ret = beh,
                       !.invoked = IF Len(@) < 2
                                   THEN Append(@, Invocation(cfn, c.ctx, spread.items))
                                   ELSE @]
        ELSE [c EXCEPT !.pc = "failed", !.error = run.outcome, !.ret = beh,
                       !.invoked = Append(@, Invocation(cfn, c.ctx, spread.items))]

\* Mutant: a failure of the invoked function is caught and ends the chain.
ApplySuppressesErrors(c, cfn, resolved, ids, beh) ==
    LET spread == Spread(resolved.args)
        run == RunUnit(beh, ids)
    IN  IF ~spread.ok
        THEN [c EXCEPT !.pc = "failed", !.error = "typeError"]
        ELSE [c EXCEPT !.pc = "returned", !.ret = beh,
                       !.result = IF run.outcome = "ok" THEN run.result ELSE DontContinue,
                       !.invoked = Append(@, Invocation(cfn, c.ctx, spread.items))]

\* return await cfn.apply(null, [context, ...resolved.args ?? []])
Apply(c, cfn, resolved, ids, beh) ==
    LET spread == Spread(resolved.args)
        run == RunUnit(beh, ids)
    IN  IF ~spread.ok
        THEN [c EXCEPT !.pc = "failed", !.error = "typeError"]
        ELSE IF run.outcome = "ok"
        THEN [c EXCEPT !.pc = "returned", !.result = run.result, !.ret = beh,
                       !.invoked = Append(@, Invocation(cfn, c.ctx, spread.items))]
        ELSE [c EXCEPT !.pc = "failed", !.error = run.outcome, !.ret = beh,
                       !.invoked = Append(@, Invocation(cfn, c.ctx, spread.items))]

\* Mutant: a terminal redirect is replaced by dontContinue().
RedirectNormalises(c, resolved, redirect) ==
    IF redirect.done
    THEN [c EXCEPT !.pc = "returned", !.result = DontContinue]
    ELSE [c EXCEPT !.cont = redirect]

\* Mutant: continueNow gives up after MaxRedirects redirects.
RedirectBounded(c, resolved, redirect) ==
    IF redirect.done
    THEN [c EXCEPT !.pc = "returned", !.result = redirect]
    ELSE IF c.nfCount >= MaxRedirects
    THEN [c EXCEPT !.pc = "failed", !.error = "tooManyRedirects"]
    ELSE [c EXCEPT !.cont = redirect]

\* Mutant: the redirect is executed with the arguments of the unresolved record.
RedirectKeepsArgs(c, resolved, redirect) ==
    IF redirect.done
    THEN [c EXCEPT !.pc = "returned", !.result = redirect]
    ELSE [c EXCEPT !.cont = [redirect EXCEPT !.args = resolved.args]]

\* if (!redirect.done) return await continueNow(redirect, context); else return redirect;
Redirect(c, resolved, redirect) ==
    IF redirect.done
    THEN [c EXCEPT !.pc = "returned", !.result = redirect]
    ELSE [c EXCEPT !.cont = redirect]

\* const redirect = await _config.functionNotFound(resolved, context); ...
Recover(c, resolved, ids, cfg) ==
    LET nf == FunctionNotFound(cfg.functionNotFound, resolved, c.ctx, ids)
        called == [c EXCEPT !.nfCount = Min(@ + 1, MaxRedirects),
                            !.nfFirst = IF c.nfCount = 0
                                        THEN NotFoundCall(resolved, c.ctx) ELSE @]
    IN  IF nf.outcome # "ok"
        THEN [called EXCEPT !.pc = "failed", !.error = nf.outcome,
                            !.errorId = IF nf.outcome = "notFound"
                                        THEN resolved.continuationId ELSE ""]
        ELSE Redirect(called, resolved, nf.result)

\* One activation of continueNow(c.cont, c.ctx), up to its return, its
\* rejection or its recursive call.
ContinueNow(c, table, ids, cfg, beh) ==
    LET resolved == c.cont
    IN  IF IsTerminal(resolved)
        THEN [c EXCEPT !.pc = "returned", !.result = DontContinue]
        ELSE IF Has(table, resolved.continuationId)
        THEN Apply(c, table[resolved.continuationId], resolved, ids, beh)
        ELSE Recover(c, resolved, ids, cfg)

\* ------------------------------------------------------------------ storage

\* JSON.stringify of a continuation: a property whose value is undefined is
\* left out, an array stays an array, an arguments object becomes a plain
\* object keyed by index.  The text is modelled as its key/value pairs.
JSONValue(args) ==
    IF args.kind = "arguments" THEN [kind |-> "object", items |-> args.items] ELSE args

JSONStringify(record) ==
    LET keys == {"done"}
                  \cup (IF record.continuationId # Undefined THEN {"continuationId"} ELSE {})
                  \cup (IF record.args.kind # "undefined" THEN {"args"} ELSE {})
    IN  [k \in keys |-> IF k = "done" THEN record.done
                        ELSE IF k = "continuationId" THEN record.continuationId
                        ELSE JSONValue(record.args)]

\* JSON.parse: the properties the text holds, the others undefined.
JSONParse(text) ==
    Rec(text["done"],
        IF "continuationId" \in DOMAIN text THEN text["continuationId"] ELSE Undefined,
        IF "args" \in DOMAIN text THEN text["args"] ELSE ArgsUndefined)

\* A continuation saved to the store and loaded again.
Reload(record) == JSONParse(JSONStringify(record))

\* Continuations found in a store: written by an earlier run of the process
\* (so with identifiers that need not resolve any more) or by hand.
StoredRecords(table) ==
    {DontContinue, Rec(FALSE, Undefined, Arr(<<"a1">>)), Rec(FALSE, "", ArgsUndefined),
     Rec(FALSE, MissingId, Arr(<<"a1">>)), Rec(TRUE, MissingId, Arr(<<"a1">>))}
        \cup {Rec(TRUE, id, Arr(<<"a1">>)) : id \in DOMAIN table}
        \cup {Rec(FALSE, id, ArgsUndefined) : id \in DOMAIN table}

\* ------------------------------------------------------------ ping sample

\* async function testContinuation(context) of the sample, once
\* ++context.iterations has run: chain back to itself or end.
TestContinuation == 1

\* Mutant: the comparison is <= instead of <.
TestContinuationBodyOffByOne(iterations, maxIterations) ==
    IF iterations <= maxIterations
    THEN Behaviour("with", TestContinuation, <<>>)
    ELSE Behaviour("done", 0, <<>>)

TestContinuationBody(iterations, maxIterations) ==
    IF iterations < maxIterations
    THEN Behaviour("with", TestContinuation, <<>>)
    ELSE Behaviour("done", 0, <<>>)

\* The largest context.maxIterations tried (5 in the sample).
MaxIterations == 7

\* ------------------------------------------------------------------- state

VARIABLES
    continuations,   \* _continuations: identifier -> function object
    continuationId,  \* fn.continuationId of every function object
    config,          \* _config
    registered,      \* history: the functions canContinueWith returned normally for
    last,            \* history: the most recent synchronous API call
    call,            \* the continueNow call in flight, or the last one
    twin,            \* the same call on the continuation before it was stored
    ping,            \* the ping sample: its position, context and continuation
    pair,            \* two chains served at once: the phase, what their functions do
    rerun,           \* a second run of the process: its table and identifiers
    echo,            \* the echo bot: its handler, its store, what it received and sent
    driver,          \* the README's bot driver: its handler and its store
    reg,             \* one canContinueWith call: its stack, the hook, what it did
    redir,           \* one continueNow call whose identifier is redirected in a chain
    racer            \* the echo bot: a second handler of the same conversation

vars == <<continuations, continuationId, config, registered, last, call, twin, ping, pair,
          rerun, echo, driver, reg, redir, racer>>

\* The state of the sample applications, and of each one's environment.
samples == <<ping, pair, rerun, echo, driver, reg, redir, racer>>
notPing == <<pair, rerun, echo, driver, reg, redir, racer>>
notPair == <<ping, rerun, echo, driver, reg, redir, racer>>
notRerun == <<ping, pair, echo, driver, reg, redir, racer>>
notEcho == <<ping, pair, rerun, driver, reg, redir, racer>>
notDriver == <<ping, pair, rerun, echo, reg, redir, racer>>
notReg == <<ping, pair, rerun, echo, driver, redir, racer>>
notRedir == <<ping, pair, rerun, echo, driver, reg, racer>>
notRace == <<ping, pair, rerun, echo, driver, reg, redir>>

\* The log of a synchronous API call; the fields an operation does not use
\* keep these values.
\*   wasRegistered  canContinueWith had returned normally for fn before
\*   id             the identifier the policy computes for fn
\*   ownerBefore    the function that identifier was a key for before (0: none)
\*   idBefore       fn.continuationId before the call
NoCall ==
    [op |-> "none", fn |-> 0, args |-> <<>>, outcome |-> "none",
     result |-> DontContinue, callerfile |-> "", id |-> Undefined,
     wasRegistered |-> FALSE, ownerBefore |-> 0, idBefore |-> Undefined]

PingOff ==
    [pc |-> "off", iterations |-> 0, maxIterations |-> 0,
     continuation |-> DontContinue, invocations |-> 0]

PairOff == [pc |-> "off", beh |-> <<NoBehaviour, NoBehaviour>>]

\* No location: canContinueWith was not called for the function in that run.
Unset == "<unset>"

\*   table, ids   _continuations and every fn.continuationId of the second run
\*   first, second   history: the file each function was registered from, per run
RerunOff ==
    [pc |-> "off", table |-> EmptyTable, ids |-> [u \in Functions |-> Undefined],
     first |-> [u \in Units |-> Unset], second |-> [u \in Units |-> Unset]]

\* A conversation without entry in the store (storage.get returns undefined).
NoEntry == [present |-> FALSE, continuation |-> DontContinue, name |-> Undefined]

\*   store      the conversation's entry: { continuation, state }
\*   name       context.conversationState.name of the turn in progress
\*   text       context.activity.text of the turn in progress
\*   received, sent   history: the texts received and the activities sent
EchoOff ==
    [pc |-> "off", store |-> NoEntry, name |-> Undefined, text |-> "",
     received |-> <<>>, sent |-> <<>>]

\* A conversation without continuation in the store.
NoContinuation == [present |-> FALSE, continuation |-> DontContinue]

Stored(record) == [present |-> TRUE, continuation |-> record]

\*   store      the conversation's continuation, when it has one
\*   turns      history: the messages received so far
\*   settled    history: how the last handler ended (saved, deleted, failed)
\*   next       history: what its continueNow returned
\*   afterDelete   history: the handler before the one in progress deleted
DriverOff ==
    [pc |-> "off", store |-> NoContinuation, turns |-> 0, settled |-> "none",
     next |-> DontContinue, afterDelete |-> FALSE]

\* Error.prepareStackTrace: not set, or a formatter the application installed.
NoHook == "<undefined>"
AppHook == "appFormatter"
Hooks == {NoHook, AppHook}

\* (err, stack) => stack, which canContinueWith installs to read the stack.
StackHook == "(err, stack) => stack"

\*   hook        Error.prepareStackTrace
\*   hookBefore  history: its value when the call began
\*   passed      history: getContinuationId was called, with `callerfile`
\*   tableBefore, idsBefore   history: _continuations and every
\*               fn.continuationId when the call began
RegOff ==
    [pc |-> "off", fn |-> 0, stack |-> <<>>, hook |-> NoHook, hookBefore |-> NoHook,
     passed |-> FALSE, callerfile |-> "", outcome |-> "none",
     tableBefore |-> EmptyTable, idsBefore |-> [u \in Functions |-> Undefined]]

\*   length  history: the number of args of the continuation passed
\*   calls   history: functionNotFound calls of this continueNow call (saturating)
\*   tick    history: flips at each functionNotFound call
RedirOff == [pc |-> "off", tick |-> FALSE, calls |-> 0, length |-> 0]

\* No object: a handler that holds no state, a store without entry.
NoObject == 0

\* Two onMessage handlers of one conversation; handler 1 runs its continueNow
\* call in `call`, handler 2 in `twin`.
\*   handler   where each handler is: idle, or between load and save
\*   text      context.activity.text of each handler's message
\*   state     the object each handler holds as context.conversationState
\*   heap      the name property of every state object made so far
\*   store     the conversation's entry: { continuation, state }, the state
\*             being a reference to a state object
\*   received, sent   history: messages received, activities sent
RacerOff ==
    [pc |-> "off", handler |-> <<"idle", "idle">>, text |-> <<"", "">>,
     state |-> <<NoObject, NoObject>>, heap |-> <<>>,
     store |-> [present |-> FALSE, continuation |-> DontContinue, state |-> NoObject],
     received |-> 0, sent |-> <<>>]

Init ==
    /\ continuations = EmptyTable
    /\ continuationId = [u \in Functions |-> Undefined]
    /\ config = DefaultConfig
    /\ registered = {}
    /\ last = NoCall
    /\ call = IdleCall
    /\ twin = IdleCall
    /\ ping = PingOff
    /\ pair = PairOff
    /\ rerun = RerunOff
    /\ echo = EchoOff
    /\ reg = RegOff
    /\ redir = RedirOff
    /\ racer = RacerOff
    /\ driver = DriverOff

\* The application is one sequential task, as the drivers of the samples
\* are: it awaits continueNow before it calls the library again.
Sequential == call.pc # "running" /\ twin.pc # "running"

\* The application calls canContinueWith(fn).
Register(fn, stack) ==
    LET r == CanContinueWith(fn, stack, continuations, continuationId, config)
        id == GetContinuationId(config.getContinuationId, CallerFile(stack), FnName(fn))
    IN  /\ Sequential
        /\ continuations' = r.table
        /\ continuationId' = r.ids
        /\ registered' = IF r.outcome = "ok" THEN registered \cup {fn} ELSE registered
        /\ last' = [NoCall EXCEPT !.op = "canContinueWith", !.fn = fn,
                        !.outcome = r.outcome, !.callerfile = CallerFile(stack),
                        !.id = id, !.wasRegistered = fn \in registered,
                        !.idBefore = continuationId[fn],
                        !.ownerBefore = IF Has(continuations, id)
                                        THEN continuations[id] ELSE 0]
        /\ call' = IdleCall /\ twin' = IdleCall
        /\ UNCHANGED <<config, samples>>

\* The application calls configureContinue(partial).
Configure(partial) ==
    /\ Sequential
    /\ config' = ConfigureContinue(config, partial)
    /\ last' = [NoCall EXCEPT !.op = "configureContinue", !.outcome = "ok"]
    /\ call' = IdleCall /\ twin' = IdleCall
    /\ UNCHANGED <<continuations, continuationId, registered, samples>>

\* The application calls continueWith(fn, ...args).
BuildContinuation(fn, args) ==
    LET r == ContinueWith(fn, args, continuationId)
    IN  /\ Sequential
        /\ last' = [NoCall EXCEPT !.op = "continueWith", !.fn = fn, !.args = args,
                        !.outcome = r.outcome, !.result = r.result]
        /\ call' = IdleCall /\ twin' = IdleCall
        /\ UNCHANGED <<continuations, continuationId, config, registered, samples>>

\* The application calls dontContinue().
EndContinuation ==
    /\ Sequential
    /\ last' = [NoCall EXCEPT !.op = "dontContinue", !.outcome = "ok",
                              !.result = DontContinue]
    /\ call' = IdleCall /\ twin' = IdleCall
    /\ UNCHANGED <<continuations, continuationId, config, registered, samples>>

\* The application calls continueNow on the continuation continueWith just
\* returned.
ExecuteBuilt(ctx) ==
    /\ Sequential
    /\ last.op = "continueWith" /\ last.outcome = "ok"
    /\ call' = StartCall(last.result, ctx, "built", last.fn, last.args)
    /\ twin' = IdleCall
    /\ last' = NoCall
    /\ UNCHANGED <<continuations, continuationId, config, registered, samples>>

\* The application saves that continuation, loads it again and calls
\* continueNow on what it loaded; `twin` runs the same call on the original.
ExecuteReloaded(ctx) ==
    /\ Sequential
    /\ last.op = "continueWith" /\ last.outcome = "ok"
    /\ call' = StartCall(Reload(last.result), ctx, "reloaded", last.fn, last.args)
    /\ twin' = StartCall(last.result, ctx, "original", last.fn, last.args)
    /\ last' = NoCall
    /\ UNCHANGED <<continuations, continuationId, config, registered, samples>>

\* The application calls continueNow on a continuation it found in its store.
ExecuteStored(record, ctx) ==
    /\ Sequential
    /\ call' = StartCall(record, ctx, "stored", 0, <<>>)
    /\ twin' = IdleCall
    /\ last' = NoCall
    /\ UNCHANGED <<continuations, continuationId, config, registered, samples>>

\* The next turn: the continuation function that ran returned
\* continueWith(fn, ...args), and the application calls continueNow on that
\* continuation with the same context.
ExecuteNext ==
    /\ Sequential
    /\ call.pc = "returned" /\ ~call.result.done
    /\ call.from = "built"
    /\ call' = [StartCall(call.result, call.ctx, "chained", call.ret.fn, call.ret.args)
                   EXCEPT !.prev = [from |-> call.from, fn |-> call.fn,
                                    args |-> call.args, invoked |-> call.invoked]]
    /\ twin' = IdleCall
    /\ last' = NoCall
    /\ UNCHANGED <<continuations, continuationId, config, registered, samples>>

\* continueNow runs up to its next return, rejection or recursive call; the
\* continuation function it invokes behaves as `beh`.
Step(beh) ==
    /\ ping.pc = "off"
    /\ call.pc = "running" \/ twin.pc = "running"
    /\ call' = IF call.pc = "running"
               THEN ContinueNow(call, continuations, continuationId, config, beh) ELSE call
    /\ twin' = IF twin.pc = "running"
               THEN ContinueNow(twin, continuations, continuationId, config, beh) ELSE twin
    /\ UNCHANGED <<continuations, continuationId, config, registered, last, samples>>

Next ==
    \/ \E fn \in Units, stack \in Stacks : Register(fn, stack)
    \/ \E partial \in Partials : Configure(partial)
    \/ \E fn \in Units, args \in ArgLists : BuildContinuation(fn, args)
    \/ EndContinuation
    \/ \E ctx \in Contexts : ExecuteBuilt(ctx)
    \/ \E ctx \in Contexts : ExecuteReloaded(ctx)
    \/ \E record \in StoredRecords(continuations), ctx \in Contexts : ExecuteStored(record, ctx)
    \/ ExecuteNext
    \/ \E beh \in Behaviours : Step(beh)

Spec == Init /\ [][Next]_vars

\* ------------------------------------------------- the ping sample's script

\* const context = { iterations: 0, maxIterations: 5 }, for any maxIterations.
InitPing ==
    /\ continuations = EmptyTable
    /\ continuationId = [u \in Functions |-> Undefined]
    /\ config = DefaultConfig
    /\ registered = {}
    /\ last = NoCall
    /\ call = IdleCall
    /\ twin = IdleCall
    /\ \E n \in 1 .. MaxIterations :
          ping = [PingOff EXCEPT !.pc = "register", !.maxIterations = n]
    /\ pair = PairOff
    /\ rerun = RerunOff
    /\ echo = EchoOff
    /\ reg = RegOff
    /\ redir = RedirOff
    /\ racer = RacerOff
    /\ driver = DriverOff

\* canContinueWith(testContinuation), called from the sample's file.
PingRegister ==
    LET r == CanContinueWith(TestContinuation, <<LibFile, AppFile>>,
                             continuations, continuationId, config)
    IN  /\ ping.pc = "register"
        /\ continuations' = r.table
        /\ continuationId' = r.ids
        /\ registered' = IF r.outcome = "ok" THEN registered \cup {TestContinuation}
                         ELSE registered
        /\ ping' = [ping EXCEPT !.pc = IF r.outcome = "ok" THEN "build" ELSE "crashed"]
        /\ UNCHANGED <<config, last, call, twin, notPing>>

\* let continuation = await continueWith(testContinuation);
PingBuild ==
    LET r == ContinueWith(TestContinuation, <<>>, continuationId)
    IN  /\ ping.pc = "build"
        /\ ping' = [ping EXCEPT !.pc = IF r.outcome = "ok" THEN "loop" ELSE "crashed",
                                !.continuation = r.result]
        /\ UNCHANGED <<continuations, continuationId, config, registered, last, call, twin, notPing>>

\* while (!continuation.done) { continuation = await continueNow(continuation, context); }
PingLoop ==
    /\ ping.pc = "loop"
    /\ IF ping.continuation.done
       THEN ping' = [ping EXCEPT !.pc = "exit"] /\ UNCHANGED call
       ELSE /\ ping' = [ping EXCEPT !.pc = "await"]
            /\ call' = StartCall(ping.continuation, "ctx", "ping", TestContinuation, <<>>)
    /\ UNCHANGED <<continuations, continuationId, config, registered, last, twin, notPing>>

\* continueNow runs; the function it invokes is testContinuation, which
\* increments context.iterations before it decides.
PingStep ==
    /\ ping.pc = "await" /\ call.pc = "running"
    /\ LET beh == TestContinuationBody(ping.iterations + 1, ping.maxIterations)
           c == ContinueNow(call, continuations, continuationId, config, beh)
           n == Len(c.invoked) - Len(call.invoked)
       IN  /\ call' = c
           /\ ping' = [ping EXCEPT !.iterations = @ + n, !.invocations = @ + n]
    /\ UNCHANGED <<continuations, continuationId, config, registered, last, twin, notPing>>

\* The awaited continueNow settles: the loop assigns its result, or the
\* rejection ends the script.
PingResume ==
    /\ ping.pc = "await" /\ call.pc \in {"returned", "failed"}
    /\ ping' = IF call.pc = "returned"
               THEN [ping EXCEPT !.pc = "loop", !.continuation = call.result]
               ELSE [ping EXCEPT !.pc = "crashed"]
    /\ call' = IdleCall
    /\ UNCHANGED <<continuations, continuationId, config, registered, last, twin, notPing>>

NextPing == PingRegister \/ PingBuild \/ PingLoop \/ PingStep \/ PingResume

\* The script is the only task of its process and runs to its end.
SpecPing == InitPing /\ [][NextPing]_vars /\ WF_vars(NextPing)

\* ------------------------------------------ two chains served concurrently

\* The context objects of the two chains.
PairContexts == <<"ctxA", "ctxB">>

\* Where the startup code registers each function from: the first from an
\* application file, the second from a frame without file name.
PairStack(fn) == IF fn = 1 THEN <<LibFile, AppFile>> ELSE <<LibFile, NoFile>>

\* The continuations a conversation's store can hold when a message arrives.
PairRecords(ids) ==
    {ContinueWith(u, <<"a1">>, ids).result : u \in {v \in Units : Truthy(ids[v])}}
        \cup {Rec(FALSE, MissingId, Arr(<<"a1">>)), DontContinue}

\* Activations one continueNow call needs at most: its own and one per redirect.
AloneFuel == MaxRedirects + 1

\* continueNow(c.cont, c.ctx) run to its end with no other call in flight.
RECURSIVE RunAlone(_, _, _, _, _, _)
RunAlone(c, table, ids, cfg, beh, fuel) ==
    IF c.pc # "running" \/ fuel = 0 THEN c
    ELSE RunAlone(ContinueNow(c, table, ids, cfg, beh), table, ids, cfg, beh, fuel - 1)

\* What the caller of continueNow and the invoked functions observe of a call.
Outcome(c) ==
    [pc |-> c.pc, invoked |-> c.invoked, result |-> c.result,
     error |-> c.error, errorId |-> c.errorId]

InitPair ==
    /\ continuations = EmptyTable
    /\ continuationId = [u \in Functions |-> Undefined]
    /\ config = DefaultConfig
    /\ registered = {}
    /\ last = NoCall
    /\ call = IdleCall
    /\ twin = IdleCall
    /\ ping = PingOff
    /\ pair = [PairOff EXCEPT !.pc = "startup"]
    /\ rerun = RerunOff
    /\ echo = EchoOff
    /\ reg = RegOff
    /\ redir = RedirOff
    /\ racer = RacerOff
    /\ driver = DriverOff

\* Startup: canContinueWith(fn) for a function not registered yet.
PairRegister(fn) ==
    LET r == CanContinueWith(fn, PairStack(fn), continuations, continuationId, config)
    IN  /\ pair.pc = "startup"
        /\ fn \notin registered
        /\ continuations' = r.table
        /\ continuationId' = r.ids
        /\ registered' = IF r.outcome = "ok" THEN registered \cup {fn} ELSE registered
        /\ UNCHANGED <<config, last, call, twin, pair, notPair>>

\* Startup: configureContinue({ functionNotFound: handler }).
PairConfigure(handler) ==
    /\ pair.pc = "startup"
    /\ config' = ConfigureContinue(config, [getContinuationId |-> Undefined,
                                            functionNotFound |-> handler])
    /\ UNCHANGED <<continuations, continuationId, registered, last, call, twin, pair, notPair>>

\* A message arrives for each of two conversations: each handler calls
\* continueNow on its conversation's continuation with its own context.
PairStart(ra, rb, ba, bb) ==
    /\ pair.pc = "startup"
    /\ call' = StartCall(ra, PairContexts[1], "pair", 0, <<>>)
    /\ twin' = StartCall(rb, PairContexts[2], "pair", 0, <<>>)
    /\ pair' = [pc |-> "serving", beh |-> <<ba, bb>>]
    /\ UNCHANGED <<continuations, continuationId, config, registered, last, notPair>>

\* Mutant: the dispatcher keeps the context in a module variable that the
\* call started first has set.
PairStepTwinSharedContext ==
    /\ pair.pc = "serving" /\ twin.pc = "running"
    /\ twin' = ContinueNow([twin EXCEPT !.ctx = call.ctx],
                           continuations, continuationId, config, pair.beh[2])
    /\ UNCHANGED <<continuations, continuationId, config, registered, last, call, pair, notPair>>

\* The first call runs from one suspension point to the next.
PairStepCall ==
    /\ pair.pc = "serving" /\ call.pc = "running"
    /\ call' = ContinueNow(call, continuations, continuationId, config, pair.beh[1])
    /\ UNCHANGED <<continuations, continuationId, config, registered, last, twin, pair, notPair>>

\* The second call runs from one suspension point to the next.
PairStepTwin ==
    /\ pair.pc = "serving" /\ twin.pc = "running"
    /\ twin' = ContinueNow(twin, continuations, continuationId, config, pair.beh[2])
    /\ UNCHANGED <<continuations, continuationId, config, registered, last, call, pair, notPair>>

NextPair ==
    \/ \E fn \in Units : PairRegister(fn)
    \/ \E handler \in NotFoundHandlers : PairConfigure(handler)
    \/ \E ra \in PairRecords(continuationId), rb \in PairRecords(continuationId),
          ba \in Behaviours, bb \in Behaviours : PairStart(ra, rb, ba, bb)
    \/ PairStepCall
    \/ PairStepTwin

SpecPair == InitPair /\ [][NextPair]_vars

\* ------------------------------------------------- two runs of the process

\* The process starts twice with the same configuration; each run registers
\* its functions in an order of its own, each function always from the file
\* that declares it.
InitRuns ==
    /\ continuations = EmptyTable
    /\ continuationId = [u \in Functions |-> Undefined]
    /\ \E policy \in IdPolicies :
          config = ConfigureContinue(DefaultConfig, [getContinuationId |-> policy,
                                                     functionNotFound |-> Undefined])
    /\ registered = {}
    /\ last = NoCall
    /\ call = IdleCall
    /\ twin = IdleCall
    /\ ping = PingOff
    /\ pair = PairOff
    /\ rerun = [RerunOff EXCEPT !.pc = "startup"]
    /\ echo = EchoOff
    /\ reg = RegOff
    /\ redir = RedirOff
    /\ racer = RacerOff
    /\ driver = DriverOff

\* The first run calls canContinueWith(fn).
RunsRegisterFirst(fn, stack) ==
    LET r == CanContinueWith(fn, stack, continuations, continuationId, config)
    IN  /\ rerun.pc = "startup"
        /\ rerun.first[fn] \in {Unset, CallerFile(stack)}
        /\ continuations' = r.table
        /\ continuationId' = r.ids
        /\ registered' = IF r.outcome = "ok" THEN registered \cup {fn} ELSE registered
        /\ rerun' = [rerun EXCEPT !.first[fn] = CallerFile(stack)]
        /\ UNCHANGED <<config, last, call, twin, notRerun>>

\* The second run calls canContinueWith(fn).
RunsRegisterSecond(fn, stack) ==
    LET r == CanContinueWith(fn, stack, rerun.table, rerun.ids, config)
    IN  /\ rerun.pc = "startup"
        /\ rerun.second[fn] \in {Unset, CallerFile(stack)}
        /\ rerun' = [rerun EXCEPT !.table = r.table, !.ids = r.ids,
                                  !.second[fn] = CallerFile(stack)]
        /\ UNCHANGED <<continuations, continuationId, config, registered, last, call, twin,
                       notRerun>>

NextRuns ==
    \/ \E fn \in Units, stack \in Stacks : RunsRegisterFirst(fn, stack)
    \/ \E fn \in Units, stack \in Stacks : RunsRegisterSecond(fn, stack)

SpecRuns == InitRuns /\ [][NextRuns]_vars

\* --------------------------------------------------------------- echo bot

\* The most messages one conversation receives.
MaxTurns == 4

\* context.activity.text: a message without text, and two with text.
EchoTexts == {"", "ann", "hi"}

\* An activity the bot sent: the name prompt ("Hi! What's your name?"), the
\* greeting ("Nice to meet you <name>! ...") or the echo ("<name>, you said: <text>").
Reply(kind, name, text) == [kind |-> kind, name |-> name, text |-> text]

\* async function namePromptContinuation(context)
NamePromptContinuationBody(name, text) ==
    [reply |-> Reply("nice", text, ""), name |-> text, beh |-> Behaviour("done", 0, <<>>)]

\* async function startContinuation(context)
StartContinuationBody(name, text) ==
    IF ~Truthy(name)
    THEN [reply |-> Reply("prompt", "", ""), name |-> name,
          beh |-> Behaviour("with", NamePromptContinuation, <<>>)]
    ELSE [reply |-> Reply("echo", name, text), name |-> name,
          beh |-> Behaviour("done", 0, <<>>)]

\* The body of the function continueNow is about to invoke (0: none).
EchoBody(cfn, name, text) ==
    IF cfn = StartContinuation THEN StartContinuationBody(name, text)
    ELSE IF cfn = NamePromptContinuation THEN NamePromptContinuationBody(name, text)
    ELSE [reply |-> Reply("none", "", ""), name |-> name, beh |-> NoBehaviour]

\* continuations.js is loaded from the file AppFile stands for.
EchoStack == <<LibFile, AppFile>>

InitEcho ==
    /\ continuations = EmptyTable
    /\ continuationId = [u \in Functions |-> Undefined]
    /\ config = DefaultConfig
    /\ registered = {}
    /\ last = NoCall
    /\ call = IdleCall
    /\ twin = IdleCall
    /\ ping = PingOff
    /\ pair = PairOff
    /\ rerun = RerunOff
    /\ echo = [EchoOff EXCEPT !.pc = "register"]
    /\ reg = RegOff
    /\ redir = RedirOff
    /\ racer = RacerOff
    /\ driver = DriverOff

\* canContinueWith(startContinuation); canContinueWith(namePromptContinuation);
EchoRegister ==
    LET r1 == CanContinueWith(StartContinuation, EchoStack,
                              continuations, continuationId, config)
        r2 == CanContinueWith(NamePromptContinuation, EchoStack, r1.table, r1.ids, config)
    IN  /\ echo.pc = "register"
        /\ IF r1.outcome # "ok"
           THEN /\ continuations' = r1.table /\ continuationId' = r1.ids
                /\ registered' = registered
                /\ echo' = [echo EXCEPT !.pc = "crashed"]
           ELSE /\ continuations' = r2.table /\ continuationId' = r2.ids
                /\ registered' = registered \cup {StartContinuation}
                       \cup (IF r2.outcome = "ok" THEN {NamePromptContinuation} ELSE {})
                /\ echo' = [echo EXCEPT !.pc = IF r2.outcome = "ok" THEN "idle"
                                               ELSE "crashed"]
        /\ UNCHANGED <<config, last, call, twin, notEcho>>

\* onMessage, up to the call of continueNow: load the conversation's entry or
\* make a new one, and add the state to the context.
EchoReceive(text) ==
    LET fresh == ContinueWith(StartContinuation, <<>>, continuationId)
    IN  /\ echo.pc = "idle"
        /\ Len(echo.received) < MaxTurns
        /\ IF ~echo.store.present /\ fresh.outcome # "ok"
           THEN /\ echo' = [echo EXCEPT !.received = Append(@, text),
                                        !.sent = Append(@, Reply("none", "", ""))]
                /\ UNCHANGED call
           ELSE /\ echo' = [echo EXCEPT !.pc = "execute", !.text = text,
                                !.name = IF echo.store.present THEN echo.store.name
                                         ELSE Undefined,
                                !.received = Append(@, text)]
                /\ call' = StartCall(IF echo.store.present THEN echo.store.continuation
                                     ELSE fresh.result, "ctx", "echo", 0, <<>>)
        /\ UNCHANGED <<continuations, continuationId, config, registered, last, twin, notEcho>>

\* continueNow runs; the function it invokes sends its activity and changes
\* context.conversationState.
EchoStep ==
    LET cfn == IF ~IsTerminal(call.cont) /\ Has(continuations, call.cont.continuationId)
               THEN continuations[call.cont.continuationId] ELSE 0
        body == EchoBody(cfn, echo.name, echo.text)
        c == ContinueNow(call, continuations, continuationId, config, body.beh)
    IN  /\ echo.pc = "execute" /\ call.pc = "running"
        /\ call' = c
        /\ echo' = IF Len(c.invoked) > Len(call.invoked)
                   THEN [echo EXCEPT !.name = body.name, !.sent = Append(@, body.reply)]
                   ELSE echo
        /\ UNCHANGED <<continuations, continuationId, config, registered, last, twin, notEcho>>

\* Mutant: the continuation continueNow returned is saved as it is.
EchoSaveKeepsResult ==
    LET sent == IF Len(echo.sent) < Len(echo.received)
                THEN Append(echo.sent, Reply("none", "", "")) ELSE echo.sent
    IN  /\ echo.pc = "execute" /\ call.pc \in {"returned", "failed"}
        /\ echo' = IF call.pc = "returned"
                   THEN [echo EXCEPT !.pc = "idle", !.sent = sent,
                             !.store = [present |-> TRUE, continuation |-> call.result,
                                        name |-> echo.name]]
                   ELSE [echo EXCEPT !.pc = "idle", !.sent = sent]
        /\ call' = IdleCall
        /\ UNCHANGED <<continuations, continuationId, config, registered, last, twin, notEcho>>

\* onMessage, after continueNow settled: save the next continuation, or a new
\* one to startContinuation when the chain is done, with the state.
EchoSave ==
    LET fresh == ContinueWith(StartContinuation, <<>>, continuationId)
        sent == IF Len(echo.sent) < Len(echo.received)
                THEN Append(echo.sent, Reply("none", "", "")) ELSE echo.sent
    IN  /\ echo.pc = "execute" /\ call.pc \in {"returned", "failed"}
        /\ echo' = IF call.pc = "returned" /\ (~call.result.done \/ fresh.outcome = "ok")
                   THEN [echo EXCEPT !.pc = "idle", !.sent = sent,
                             !.store = [present |-> TRUE,
                                        continuation |-> IF ~call.result.done
                                                         THEN call.result ELSE fresh.result,
                                        name |-> echo.name]]
                   ELSE [echo EXCEPT !.pc = "idle", !.sent = sent]
        /\ call' = IdleCall
        /\ UNCHANGED <<continuations, continuationId, config, registered, last, twin, notEcho>>

NextEcho ==
    \/ EchoRegister
    \/ \E text \in EchoTexts : EchoReceive(text)
    \/ EchoStep
    \/ EchoSave

SpecEcho == InitEcho /\ [][NextEcho]_vars

\* ------------------------------------------------------ the README's driver

\* What the store holds for the conversation when the process starts: nothing,
\* or a continuation an earlier deployment saved.
DriverStale ==
    {NoContinuation, Stored(Rec(FALSE, MissingId, Arr(<<"a1">>))),
     Stored(Rec(FALSE, Undefined, Arr(<<"a1">>)))}

\* The bot's functions are registered from the file AppFile stands for.
DriverStack == <<LibFile, AppFile>>

\* What the function continueNow invokes does: promptForNameContinuation
\* chains to namePromptResponseContinuation, the others end the chain.
DriverBody(cfn) ==
    IF cfn = PromptForNameContinuation
    THEN Behaviour("with", NamePromptResponseContinuation, <<>>)
    ELSE Behaviour("done", 0, <<>>)

InitDriver ==
    /\ continuations = EmptyTable
    /\ continuationId = [u \in Functions |-> Undefined]
    /\ \E handler \in NotFoundHandlers :
          config = ConfigureContinue(DefaultConfig, [getContinuationId |-> Undefined,
                                                     functionNotFound |-> handler])
    /\ registered = {}
    /\ last = NoCall
    /\ call = IdleCall
    /\ twin = IdleCall
    /\ ping = PingOff
    /\ pair = PairOff
    /\ rerun = RerunOff
    /\ echo = EchoOff
    /\ reg = RegOff
    /\ redir = RedirOff
    /\ racer = RacerOff
    /\ \E entry \in DriverStale :
          driver = [DriverOff EXCEPT !.pc = "register", !.store = entry]

\* canContinueWith(promptForNameContinuation);
\* canContinueWith(namePromptResponseContinuation); and, with the custom
\* functionNotFound of the README, canContinueWith(errorContinuation).
DriverRegister(withError) ==
    LET r1 == CanContinueWith(PromptForNameContinuation, DriverStack,
                              continuations, continuationId, config)
        r2 == CanContinueWith(NamePromptResponseContinuation, DriverStack,
                              r1.table, r1.ids, config)
        r3 == IF withError
              THEN CanContinueWith(ErrorUnit, DriverStack, r2.table, r2.ids, config)
              ELSE [outcome |-> "ok", table |-> r2.table, ids |-> r2.ids]
        ok == r1.outcome = "ok" /\ r2.outcome = "ok" /\ r3.outcome = "ok"
    IN  /\ driver.pc = "register"
        /\ continuations' = r3.table
        /\ continuationId' = r3.ids
        /\ registered' = IF ok THEN BotUnits \cup (IF withError THEN {ErrorUnit} ELSE {})
                         ELSE registered
        /\ driver' = [driver EXCEPT !.pc = IF ok THEN "idle" ELSE "crashed"]
        /\ UNCHANGED <<config, last, call, twin, notDriver>>

\* onMessageReceived, up to the call of continueNow.
DriverReceive ==
    LET fresh == ContinueWith(PromptForNameContinuation, <<>>, continuationId)
    IN  /\ driver.pc = "idle"
        /\ driver.turns < MaxTurns
        /\ IF ~driver.store.present /\ fresh.outcome # "ok"
           THEN /\ driver' = [driver EXCEPT !.turns = @ + 1, !.settled = "failed",
                                            !.afterDelete = FALSE]
                /\ UNCHANGED call
           ELSE /\ driver' = [driver EXCEPT !.pc = "execute", !.turns = @ + 1,
                                            !.afterDelete = (driver.settled = "deleted")]
                /\ call' = StartCall(IF driver.store.present THEN driver.store.continuation
                                     ELSE fresh.result, "ctx", "driver", 0, <<>>)
        /\ UNCHANGED <<continuations, continuationId, config, registered, last, twin,
                       notDriver>>

\* continueNow runs.
DriverStep ==
    LET cfn == IF ~IsTerminal(call.cont) /\ Has(continuations, call.cont.continuationId)
               THEN continuations[call.cont.continuationId] ELSE 0
    IN  /\ driver.pc = "execute" /\ call.pc = "running"
        /\ call' = ContinueNow(call, continuations, continuationId, config, DriverBody(cfn))
        /\ UNCHANGED <<continuations, continuationId, config, registered, last, twin,
                       driver, notDriver>>

\* Mutant: the driver saves whatever continueNow returned.
DriverSettleAlwaysSaves ==
    /\ driver.pc = "execute" /\ call.pc \in {"returned", "failed"}
    /\ driver' = IF call.pc = "failed"
                 THEN [driver EXCEPT !.pc = "idle", !.settled = "failed"]
                 ELSE [driver EXCEPT !.pc = "idle", !.settled = "saved",
                                     !.next = call.result, !.store = Stored(call.result)]
    /\ UNCHANGED <<continuations, continuationId, config, registered, last, call, twin,
                   notDriver>>

\* onMessageReceived, after continueNow settled: if (next.done) delete the
\* conversation's continuation, else save next; a rejection leaves the store.
DriverSettle ==
    /\ driver.pc = "execute" /\ call.pc \in {"returned", "failed"}
    /\ driver' = IF call.pc = "failed"
                 THEN [driver EXCEPT !.pc = "idle", !.settled = "failed"]
                 ELSE IF call.result.done
                 THEN [driver EXCEPT !.pc = "idle", !.settled = "deleted",
                                     !.next = call.result, !.store = NoContinuation]
                 ELSE [driver EXCEPT !.pc = "idle", !.settled = "saved",
                                     !.next = call.result, !.store = Stored(call.result)]
    /\ UNCHANGED <<continuations, continuationId, config, registered, last, call, twin,
                   notDriver>>

NextDriver ==
    \/ \E withError \in BOOLEAN : DriverRegister(withError)
    \/ DriverReceive
    \/ DriverStep
    \/ DriverSettle

SpecDriver == InitDriver /\ [][NextDriver]_vars

\* ------------------------------------------------- one canContinueWith call

\* An application that sets Error.prepareStackTrace, configures the
\* identifier policy and registers functions from any stack.
InitRegister ==
    /\ continuations = EmptyTable
    /\ continuationId = [u \in Functions |-> Undefined]
    /\ config = DefaultConfig
    /\ registered = {}
    /\ last = NoCall
    /\ call = IdleCall
    /\ twin = IdleCall
    /\ ping = PingOff
    /\ pair = PairOff
    /\ rerun = RerunOff
    /\ echo = EchoOff
    /\ reg = [RegOff EXCEPT !.pc = "idle"]
    /\ redir = RedirOff
    /\ racer = RacerOff
    /\ driver = DriverOff

\* The application assigns Error.prepareStackTrace, before it registers.
RegisterSetHook(hook) ==
    /\ reg.pc = "idle"
    /\ reg.hook # hook
    /\ reg' = [reg EXCEPT !.hook = hook]
    /\ UNCHANGED <<continuations, continuationId, config, registered, last, call, twin,
                   notReg>>

\* The application calls configureContinue({getContinuationId: policy}),
\* before it registers.
RegisterConfigure(policy) ==
    /\ reg.pc = "idle"
    /\ config' = ConfigureContinue(config, [getContinuationId |-> policy,
                                            functionNotFound |-> Undefined])
    /\ config' # config
    /\ UNCHANGED <<continuations, continuationId, registered, last, call, twin, reg,
                   notReg>>

\* The application calls canContinueWith(fn); `stack` is what new Error()
\* captures.  The whole call, its finally included.
RegisterCall(fn, stack) ==
    LET originalFunc == reg.hook
        r == CanContinueWith(fn, stack, continuations, continuationId, config)
    IN  /\ reg.pc # "off"
        /\ continuations' = r.table
        /\ continuationId' = r.ids
        /\ registered' = IF r.outcome = "ok" THEN registered \cup {fn} ELSE registered
        /\ reg' = [pc |-> "done", fn |-> fn, stack |-> stack,
                   hook |-> Finally(originalFunc, StackHook, r.outcome),
                   hookBefore |-> originalFunc,
                   passed |-> r.outcome # "duplicate",
                   callerfile |-> CallerFile(stack),
                   outcome |-> r.outcome,
                   tableBefore |-> continuations, idsBefore |-> continuationId]
        /\ UNCHANGED <<config, last, call, twin, notReg>>

NextRegister ==
    \/ \E hook \in Hooks : RegisterSetHook(hook)
    \/ \E policy \in IdPolicies \cup {ThrowingPolicy} : RegisterConfigure(policy)
    \/ \E fn \in Units, stack \in BundledStacks : RegisterCall(fn, stack)

SpecRegister == InitRegister /\ [][NextRegister]_vars

\* ------------------------------------------------------ chains of redirects

InitRedirect ==
    /\ continuations = EmptyTable
    /\ continuationId = [u \in Functions |-> Undefined]
    /\ config = DefaultConfig
    /\ registered = {}
    /\ last = NoCall
    /\ call = IdleCall
    /\ twin = IdleCall
    /\ ping = PingOff
    /\ pair = PairOff
    /\ rerun = RerunOff
    /\ echo = EchoOff
    /\ reg = RegOff
    /\ redir = [RedirOff EXCEPT !.pc = "idle"]
    /\ racer = RacerOff
    /\ driver = DriverOff

\* Startup: the application calls canContinueWith(fn).
RedirectRegister(fn, stack) ==
    LET r == CanContinueWith(fn, stack, continuations, continuationId, config)
    IN  /\ redir.pc = "idle"
        /\ continuations' = r.table
        /\ continuationId' = r.ids
        /\ registered' = IF r.outcome = "ok" THEN registered \cup {fn} ELSE registered
        /\ UNCHANGED <<config, last, call, twin, redir, notRedir>>

\* Startup: the application calls configureContinue({functionNotFound: handler}).
RedirectConfigure(handler) ==
    /\ redir.pc = "idle"
    /\ config' = ConfigureContinue(config, [getContinuationId |-> Undefined,
                                            functionNotFound |-> handler])
    /\ config' # config
    /\ UNCHANGED <<continuations, continuationId, registered, last, call, twin, redir,
                   notRedir>>

\* The application calls continueNow on a stored continuation whose
\* identifier is not registered and that has n args.
RedirectStart(n) ==
    /\ redir.pc = "idle"
    /\ call' = StartCall(Rec(FALSE, MissingId, Arr([i \in 1 .. n |-> "a1"])), "ctx",
                         "stored", 0, <<>>)
    /\ redir' = [redir EXCEPT !.pc = "running", !.length = n]
    /\ UNCHANGED <<continuations, continuationId, config, registered, last, twin,
                   notRedir>>

\* The call goes on: one activation of continueNow.
RedirectStep(beh) ==
    LET resolved == call.cont
        notFound == ~IsTerminal(resolved) /\ ~Has(continuations, resolved.continuationId)
    IN  /\ redir.pc = "running"
        /\ call.pc = "running"
        /\ call' = ContinueNow(call, continuations, continuationId, config, beh)
        /\ redir' = IF notFound
                     THEN [redir EXCEPT !.tick = ~@, !.calls = Min(@ + 1, MaxChain + 2)]
                     ELSE redir
        /\ UNCHANGED <<continuations, continuationId, config, registered, last, twin,
                       notRedir>>

NextRedirect ==
    \/ \E fn \in Units, stack \in Stacks : RedirectRegister(fn, stack)
    \/ \E handler \in ChainHandlers \cup {"toMissing"} : RedirectConfigure(handler)
    \/ \E n \in 0 .. MaxChain : RedirectStart(n)
    \/ \E beh \in Behaviours : RedirectStep(beh)

\* A continueNow call that can go on does: the promise it awaits is resolved.
SpecRedirect ==
    InitRedirect /\ [][NextRedirect]_vars /\ WF_vars(\E beh \in Behaviours : RedirectStep(beh))

\* ------------------------------------- echo bot, handlers that interleave

\* The texts of the messages: what a user types, never empty.
RaceTexts == EchoTexts \ {""}

Handlers == {1, 2}

InitRace ==
    /\ continuations = EmptyTable
    /\ continuationId = [u \in Functions |-> Undefined]
    /\ config = DefaultConfig
    /\ registered = {}
    /\ last = NoCall
    /\ call = IdleCall
    /\ twin = IdleCall
    /\ ping = PingOff
    /\ pair = PairOff
    /\ rerun = RerunOff
    /\ echo = EchoOff
    /\ reg = RegOff
    /\ redir = RedirOff
    /\ racer = [RacerOff EXCEPT !.pc = "register"]
    /\ driver = DriverOff

\* canContinueWith(startContinuation); canContinueWith(namePromptContinuation);
RaceRegister ==
    LET r1 == CanContinueWith(StartContinuation, EchoStack,
                              continuations, continuationId, config)
        r2 == CanContinueWith(NamePromptContinuation, EchoStack, r1.table, r1.ids, config)
    IN  /\ racer.pc = "register"
        /\ continuations' = r2.table
        /\ continuationId' = r2.ids
        /\ registered' = registered
               \cup (IF r1.outcome = "ok" THEN {StartContinuation} ELSE {})
               \cup (IF r2.outcome = "ok" THEN {NamePromptContinuation} ELSE {})
        /\ racer' = [racer EXCEPT !.pc = IF r1.outcome = "ok" /\ r2.outcome = "ok"
                                         THEN "serving" ELSE "crashed"]
        /\ UNCHANGED <<config, last, call, twin, notRace>>

\* The continueNow call of handler h.
CallOf(h) == IF h = 1 THEN call ELSE twin

\* Handler h, up to its call of continueNow: storage.get runs when
\* loadConversationState is called; without entry the handler makes a
\* continuation to startContinuation and a new state object {}.
RaceReceive(h, text) ==
    LET fresh == ContinueWith(StartContinuation, <<>>, continuationId)
        loaded == racer.store.present
        started == StartCall(IF loaded THEN racer.store.continuation ELSE fresh.result,
                             "ctx", "echo", 0, <<>>)
    IN  /\ racer.pc = "serving"
        /\ racer.handler[h] = "idle"
        /\ racer.received < MaxTurns
        /\ racer' = [racer EXCEPT
                        !.handler[h] = "execute",
                        !.text[h] = text,
                        !.state[h] = IF loaded THEN racer.store.state ELSE Len(racer.heap) + 1,
                        !.heap = IF loaded THEN @ ELSE Append(@, Undefined),
                        !.received = @ + 1]
        /\ call' = IF h = 1 THEN started ELSE call
        /\ twin' = IF h = 2 THEN started ELSE twin
        /\ UNCHANGED <<continuations, continuationId, config, registered, last, notRace>>

\* continueNow of handler h runs; the function it invokes reads and writes
\* the state object the handler holds and sends its activity.
RaceStep(h) ==
    LET cur == CallOf(h)
        cfn == IF ~IsTerminal(cur.cont) /\ Has(continuations, cur.cont.continuationId)
               THEN continuations[cur.cont.continuationId] ELSE 0
        body == EchoBody(cfn, racer.heap[racer.state[h]], racer.text[h])
        c == ContinueNow(cur, continuations, continuationId, config, body.beh)
    IN  /\ racer.handler[h] = "execute" /\ cur.pc = "running"
        /\ call' = IF h = 1 THEN c ELSE call
        /\ twin' = IF h = 2 THEN c ELSE twin
        /\ racer' = IF Len(c.invoked) > Len(cur.invoked)
                    THEN [racer EXCEPT !.heap[racer.state[h]] = body.name,
                                       !.sent = Append(@, body.reply)]
                    ELSE racer
        /\ UNCHANGED <<continuations, continuationId, config, registered, last, notRace>>

\* Handler h after its continueNow settled: storage.set of the next
\* continuation, or a new one to startContinuation, with the state object.
RaceSave(h) ==
    LET cur == CallOf(h)
        fresh == ContinueWith(StartContinuation, <<>>, continuationId)
    IN  /\ racer.handler[h] = "execute" /\ cur.pc \in {"returned", "failed"}
        /\ racer' = IF cur.pc = "returned"
                    THEN [racer EXCEPT
                             !.handler[h] = "idle",
                             !.store = [present |-> TRUE,
                                        continuation |-> IF ~cur.result.done
                                                         THEN cur.result ELSE fresh.result,
                                        state |-> racer.state[h]]]
                    ELSE [racer EXCEPT !.handler[h] = "idle"]
        /\ call' = IF h = 1 THEN IdleCall ELSE call
        /\ twin' = IF h = 2 THEN IdleCall ELSE twin
        /\ UNCHANGED <<continuations, continuationId, config, registered, last, notRace>>

NextRace ==
    \/ RaceRegister
    \/ \E h \in Handlers, text \in RaceTexts : RaceReceive(h, text)
    \/ \E h \in Handlers : RaceStep(h)
    \/ \E h \in Handlers : RaceSave(h)

SpecRace == InitRace /\ [][NextRace]_vars

\* ------------------------------------------------------------------ claims

Finished(c) == c.pc \in {"returned", "failed"}

\* C1: continueNow on the continuation continueWith(U, a1..an) returned
\* invokes U itself exactly once, with (ctx, a1, ..., an), and nothing else.
C1_BuiltRecordInvokesItsUnit ==
    (call.from = "built" /\ Finished(call))
        => call.invoked = <<Invocation(call.fn, call.ctx, call.args)>>

\* C2: canContinueWith on a function an earlier call succeeded for fails as a
\* duplicate registration; on another function whose identifier is a key of
\* the table already it fails as an identifier collision.
C2_RegisterFailsOnDuplicateAndCollision ==
    last.op = "canContinueWith" =>
        /\ last.wasRegistered => last.outcome = "duplicate"
        /\ (~last.wasRegistered /\ last.ownerBefore \notin {0, last.fn})
               => last.outcome = "collision"

\* C3: the table maps the identifier every registered function carries to
\* that function.
C3_LookupReturnsRegisteredUnit ==
    \A u \in registered :
        /\ Has(continuations, continuationId[u])
        /\ continuations[continuationId[u]] = u

\* C4: continueNow on a continuation with done = true resolves to
\* { done: true } and invokes neither a function nor functionNotFound.
C4_DoneRecordReturnsTerminal ==
    (Finished(call) /\ call.first.done) =>
        /\ call.pc = "returned"
        /\ call.result = DontContinue
        /\ call.invoked = <<>>
        /\ call.nfCount = 0

C4_Witness ==
    /\ call.pc = "returned"
    /\ call.first.done
    /\ Has(continuations, call.first.continuationId)
    /\ call.first.args = Arr(<<"a1">>)
    /\ config.functionNotFound = "toError"

\* C5: with the default functionNotFound, continueNow on a continuation that
\* is not done and whose identifier is no key of the table rejects with the
\* not-found error naming that identifier, and invokes no function.
C5_DefaultNotFoundFails ==
    (/\ Finished(call)
     /\ ~call.first.done
     /\ Truthy(call.first.continuationId)
     /\ ~Has(continuations, call.first.continuationId)
     /\ config.functionNotFound = "default") =>
        /\ call.pc = "failed"
        /\ call.error = "notFound"
        /\ call.errorId = call.first.continuationId
        /\ call.invoked = <<>>

C5_Witness ==
    /\ call.pc = "failed"
    /\ call.error = "notFound"
    /\ call.first = Rec(FALSE, MissingId, Arr(<<"a1">>))
    /\ config.functionNotFound = "default"
    /\ registered = Units

\* C6: when functionNotFound answers an unresolved continuation with a
\* continuation that is not done and names a registered function E, it was
\* called once with (the unresolved continuation, ctx), E is invoked once
\* with ctx and the redirect's arguments, and continueNow returns E's result.
C6_RedirectToRegisteredUnit ==
    LET nf == FunctionNotFound(config.functionNotFound, call.first, call.ctx, continuationId)
    IN  (/\ Finished(call)
         /\ ~call.first.done
         /\ Truthy(call.first.continuationId)
         /\ ~Has(continuations, call.first.continuationId)
         /\ nf.outcome = "ok"
         /\ ~nf.result.done
         /\ Has(continuations, nf.result.continuationId)) =>
            /\ call.nfCount = 1
            /\ call.nfFirst = NotFoundCall(call.first, call.ctx)
            /\ call.invoked = <<Invocation(continuations[nf.result.continuationId],
                                           call.ctx, nf.result.args.items)>>
            /\ call.pc = "returned" => call.result = RunUnit(call.ret, continuationId).result
            /\ call.ret.kind = "done" => (call.pc = "returned" /\ call.result = DontContinue)

C6_Witness ==
    /\ call.pc = "returned"
    /\ call.first = Rec(FALSE, MissingId, Arr(<<"a1">>))
    /\ config.functionNotFound = "toError"
    /\ call.invoked = <<Invocation(ErrorUnit, "ctx", <<>>)>>
    /\ call.result = DontContinue

C8_ChainInvokesUThenV ==
    (/\ call.from = "chained"
     /\ Finished(call)
     /\ call.prev.fn \in registered
     /\ call.fn \in registered) =>
        /\ call.prev.invoked = <<Invocation(call.prev.fn, call.ctx, call.prev.args)>>
        /\ call.invoked = <<Invocation(call.fn, call.ctx, call.args)>>

\* C9: the ping script's loop ends, after exactly maxIterations invocations
\* of testContinuation.
C9_PingEndsAfterMaxIterations ==
    /\ [](ping.invocations <= ping.maxIterations)
    /\ [](ping.pc = "exit" => ping.invocations = ping.maxIterations)
    /\ <>(ping.pc = "exit")

C9_Witness ==
    /\ ping.pc = "exit"
    /\ ping.maxIterations = 5
    /\ ping.invocations = 5

C11_TableIsAppendOnly ==
    [][\A id \in DOMAIN continuations :
          /\ id \in DOMAIN continuations'
          /\ continuations'[id] = continuations[id]]_vars

C11_Witness ==
    /\ last.op = "canContinueWith"
    /\ last.outcome = "collision"
    /\ last.fn = 2
    /\ last.ownerBefore = 1
    /\ continuations[last.id] = 1

\* C12: a function's continuationId, once canContinueWith has assigned it, is
\* the same after every later canContinueWith call on that function.
C12_IdentifierIsSetOnce ==
    (last.op = "canContinueWith" /\ last.idBefore # Undefined)
        => continuationId[last.fn] = last.idBefore

C15_ConfigureMergesOverride ==
    [][\A partial \in Partials : Configure(partial) =>
          /\ \A k \in {"getContinuationId", "functionNotFound"} :
                config'[k] = IF partial[k] = Undefined THEN config[k] ELSE partial[k]
          /\ continuations' = continuations
          /\ continuationId' = continuationId]_vars

C15_Witness ==
    /\ last.op = "configureContinue"
    /\ config = [getContinuationId |-> "fileOnly", functionNotFound |-> "toError"]
    /\ continuationId[1] = "app.js#f"
    /\ continuations = ("app.js#f" :> 1)

\* C16: when two runs under the same policy have registered the same
\* functions from the same files, every function carries the same identifier
\* in both (file#name under the default policy), the tables have the same
\* keys, and a continuation built for a function in the first run resolves in
\* the second to a function registered from the same file with the same name.
C16_IdentifiersAreDeterministic ==
    rerun.first = rerun.second =>
        /\ rerun.ids = continuationId
        /\ DOMAIN rerun.table = DOMAIN continuations
        /\ \A u \in Units :
              (rerun.first[u] # Unset /\ config.getContinuationId = "default")
                  => continuationId[u] = rerun.first[u] \o "#" \o FnName(u)
        /\ \A u \in Units :
              LET built == ContinueWith(u, <<>>, continuationId)
              IN  built.outcome = "ok" =>
                      /\ Has(rerun.table, built.result.continuationId)
                      /\ LET v == rerun.table[built.result.continuationId]
                         IN  rerun.second[v] = rerun.first[u] /\ FnName(v) = FnName(u)

C16_Witness ==
    /\ rerun.first = (1 :> "app.js" @@ 2 :> "app.js")
    /\ rerun.second = rerun.first
    /\ continuations = ("app.js#f" :> 1)
    /\ rerun.table = ("app.js#f" :> 2)

\* C17: when the function continueNow invoked throws, continueNow rejects
\* with that error: it resolves to no continuation, invokes no second
\* function, and calls functionNotFound no more than it had to find the
\* function (not at all when the identifier was a key of the table).
C17_UnitFailureSurfaces ==
    LET run == RunUnit(call.ret, continuationId)
    IN  (Finished(call) /\ Len(call.invoked) > 0 /\ run.outcome # "ok") =>
            /\ call.pc = "failed"
            /\ call.error = run.outcome
            /\ Len(call.invoked) = 1
            /\ call.nfCount = IF Has(continuations, call.first.continuationId) THEN 0 ELSE 1

C17_Witness ==
    /\ call.pc = "failed"
    /\ call.error = "unitError"
    /\ call.from = "built"
    /\ call.nfCount = 0
    /\ Len(call.invoked) = 1
    /\ config.functionNotFound = "toDone"

\* C18: dontContinue() always returns { done: true } without identifier and
\* without args; continueWith, when it returns, returns a continuation that is
\* not done and has an identifier: the identifier is present iff done is false.
C18_ConstructedRecordsAreWellFormed ==
    /\ last.op = "dontContinue" =>
           last.result = [done |-> TRUE, continuationId |-> Undefined,
                          args |-> [kind |-> "undefined", items |-> <<>>]]
    /\ (last.op = "continueWith" /\ last.outcome = "ok") =>
           (~last.result.done /\ Truthy(last.result.continuationId))
    /\ (last.op \in {"dontContinue", "continueWith"} /\ last.outcome = "ok") =>
           (Truthy(last.result.continuationId) <=> ~last.result.done)

C18_Witness ==
    /\ last.op = "dontContinue"
    /\ last.result.done
    /\ registered = Units
    /\ config.functionNotFound = "toMissing"

\* C19: between two messages of a conversation the echo bot has answered the
\* first message with the name prompt, the second with the greeting and has
\* stored it as the name, every later one with the echo under that name, and
\* has sent the name prompt once at most.
C19_EchoBotPromptsOnceThenEchoes ==
    LET n == Len(echo.received)
    IN  (echo.pc = "idle" /\ n > 0) =>
            /\ Len(echo.sent) = n
            /\ echo.sent[1] = Reply("prompt", "", "")
            /\ n >= 2 => /\ echo.sent[2] = Reply("nice", echo.received[2], "")
                         /\ echo.store.name = echo.received[2]
            /\ \A k \in 3 .. n :
                  echo.sent[k] = Reply("echo", echo.received[2], echo.received[k])
            /\ Cardinality({k \in 1 .. n : echo.sent[k].kind = "prompt"}) <= 1

\* C20: the README driver's store never holds a continuation that is done:
\* a handler whose continueNow returned a done continuation deleted the
\* entry, any other saved what continueNow returned; and the handler that
\* follows a deletion executes a new continuation to
\* promptForNameContinuation, which invokes that function.
C20_DriverStoresNoDoneRecord ==
    /\ driver.store.present => ~driver.store.continuation.done
    /\ (driver.pc = "idle" /\ driver.settled \in {"saved", "deleted"}) =>
           /\ call.pc = "returned" /\ driver.next = call.result
           /\ driver.settled = "deleted" <=> driver.next.done
           /\ driver.next.done => driver.store = NoContinuation
           /\ ~driver.next.done => driver.store = Stored(driver.next)
    /\ (driver.pc = "execute" /\ driver.afterDelete) =>
           /\ call.first = Rec(FALSE, continuationId[PromptForNameContinuation], Arr(<<>>))
           /\ Finished(call) =>
                  call.invoked = <<Invocation(PromptForNameContinuation, "ctx", <<>>)>>

C20_Witness ==
    /\ driver.pc = "execute"
    /\ driver.afterDelete
    /\ driver.turns = 3
    /\ call.pc = "returned"
    /\ config.functionNotFound = "toError"
\* The frames of the callers of canContinueWith, outward from its own frame.
CallerFrames(stack) == IF stack = <<>> THEN <<>> ELSE Tail(stack)

\* The positions of the caller frames whose file is not canContinueWith's own.
Differing(stack) ==
    {i \in 1 .. Len(CallerFrames(stack)) :
        FileNameOf(CallerFrames(stack)[i]) # CurrentFile(stack)}

FirstDiffering(stack) ==
    CHOOSE i \in Differing(stack) : \A j \in Differing(stack) : i <= j

\* C21: the file canContinueWith passes to getContinuationId is the file of
\* the first caller frame, outward from canContinueWith's own frame, whose
\* file differs from canContinueWith's own; a caller frame that shares
\* canContinueWith's file is skipped and its file is never the one passed.
C21_CallerFileIsFirstDifferingFrame ==
    (reg.pc = "done" /\ reg.passed) =>
        /\ Differing(reg.stack) # {} =>
               reg.callerfile = FileNameOf(CallerFrames(reg.stack)[FirstDiffering(reg.stack)])
        /\ CallerFrames(reg.stack) # <<>> => reg.callerfile # CurrentFile(reg.stack)

\* C22: when no caller frame has a file that differs from canContinueWith's
\* own, the file passed to getContinuationId is the empty string.
C22_NoDifferingFrameGivesEmpty ==
    (reg.pc = "done" /\ reg.passed /\ Differing(reg.stack) = {}) => reg.callerfile = ""

\* C23: continueNow on a continuation with done = false and no identifier
\* returns {done: true}, having invoked no continuation function and not
\* called functionNotFound, whatever its args are.
C23_NoIdentifierReturnsTerminal ==
    (Finished(call) /\ ~call.first.done /\ ~Truthy(call.first.continuationId)) =>
        /\ call.pc = "returned"
        /\ call.result = DontContinue
        /\ call.invoked = <<>>
        /\ call.nfCount = 0

C23_Witness ==
    /\ call.pc = "returned"
    /\ call.first = Rec(FALSE, Undefined, Arr(<<"a1">>))
    /\ Has(continuations, "")

\* C24: when functionNotFound answers the unresolved continuation with a
\* continuation that has done = true, continueNow returns that continuation
\* itself, invokes no continuation function and calls functionNotFound once.
C24_TerminalRedirectIsReturned ==
    LET nf == FunctionNotFound(config.functionNotFound, call.nfFirst.continuation,
                               call.ctx, continuationId)
    IN  (Finished(call) /\ call.nfCount > 0 /\ nf.outcome = "ok" /\ nf.result.done) =>
            /\ call.pc = "returned"
            /\ call.result = nf.result
            /\ call.invoked = <<>>
            /\ call.nfCount = 1

C24_Witness ==
    /\ call.pc = "returned"
    /\ call.nfCount = 1
    /\ call.nfFirst = NotFoundCall(call.first, "ctx")
    /\ config.functionNotFound = "toDone"
    /\ call.result = TerminalRedirect
    /\ call.result # DontContinue
    /\ continuations # EmptyTable

\* C25: continueNow does not bound the redirects.  A call returns (or
\* rejects) when the continuations functionNotFound answers with reach, after
\* finitely many redirects, one with done = true, one without identifier or
\* one whose identifier is registered, and functionNotFound was then called
\* once per unresolved continuation of the chain; when functionNotFound
\* answers every unresolved continuation with another unresolved one, the
\* call never returns and calls functionNotFound again and again.
C25_RedirectsAreUnbounded ==
    LET finite == config.functionNotFound \in ChainHandlers
        endless == config.functionNotFound = "toMissing"
    IN  /\ [](redir.pc = "running" /\ finite => <>Finished(call))
        /\ [](redir.pc = "running" /\ finite /\ Finished(call) =>
                  redir.calls = redir.length + 1)
        /\ [](redir.pc = "running" /\ endless => [](~Finished(call)))
        /\ [](redir.pc = "running" /\ endless => <>redir.tick)
        /\ [](redir.pc = "running" /\ endless => <>(~redir.tick))

C25_Witness ==
    /\ redir.pc = "running"
    /\ redir.length = MaxChain
    /\ redir.calls = MaxChain + 1
    /\ call.pc = "returned"
    /\ call.invoked = <<Invocation(ErrorUnit, "ctx", <<>>)>>

\* C26: in the echo bot, after every completed onMessage the store holds for
\* the conversation a continuation that is not done, together with the
\* conversation state: the continuation to namePromptContinuation after the
\* prompt, and after a turn whose chain ended a new continuation to
\* startContinuation, never the done result; so the continuation every turn
\* executes has a registered identifier and functionNotFound is not called.
C26_EchoStoreHoldsOpenContinuation ==
    /\ (echo.pc = "idle" /\ echo.received # <<>>) =>
           LET lastSent == echo.sent[Len(echo.sent)]
           IN  /\ Len(echo.sent) = Len(echo.received)
               /\ echo.store.present
               /\ ~echo.store.continuation.done
               /\ Has(continuations, echo.store.continuation.continuationId)
               /\ echo.store.name = echo.name
               /\ lastSent.kind = "prompt" =>
                      echo.store.continuation =
                          Rec(FALSE, continuationId[NamePromptContinuation], Arr(<<>>))
               /\ lastSent.kind \in {"nice", "echo"} =>
                      echo.store.continuation =
                          Rec(FALSE, continuationId[StartContinuation], Arr(<<>>))
               /\ lastSent.kind \in {"prompt", "nice", "echo"}
    /\ echo.pc = "execute" =>
           /\ ~call.first.done
           /\ Has(continuations, call.first.continuationId)
           /\ call.nfCount = 0
           /\ call.pc # "failed"

C26_Witness ==
    /\ echo.pc = "idle"
    /\ Len(echo.received) = 3
    /\ echo.sent[2].kind = "nice"
    /\ echo.sent[3].kind = "echo"
    /\ echo.store.name = "ann"
    /\ echo.store.continuation = Rec(FALSE, continuationId[StartContinuation], Arr(<<>>))

\* C27: a canContinueWith call that fails as a duplicate registration or as
\* an identifier collision leaves _continuations and the continuationId of
\* every function, the one passed included, as they were before the call; a
\* function that carried no identifier before carries none afterwards, and
\* continueWith on it fails.
C27_FailedRegisterChangesNothing ==
    (reg.pc = "done" /\ reg.outcome \in {"duplicate", "collision"}) =>
        /\ continuations = reg.tableBefore
        /\ continuationId = reg.idsBefore
        /\ ~Truthy(reg.idsBefore[reg.fn]) =>
               /\ ~Truthy(continuationId[reg.fn])
               /\ ContinueWith(reg.fn, <<>>, continuationId).outcome # "ok"

\* C28: in the echo bot, however the onMessage handlers of one conversation
\* interleave at their awaits, the name prompt is sent at most once.
C28_PromptSentAtMostOnce ==
    Cardinality({i \in DOMAIN racer.sent : racer.sent[i].kind = "prompt"}) <= 1

\* C29: when canContinueWith is left, by its return or by the error of a
\* duplicate registration, of an identifier collision or of a throwing
\* getContinuationId, Error.prepareStackTrace has the value it had when the
\* call began, not the formatter canContinueWith installed.
C29_HookIsRestored ==
    reg.pc = "done" =>
        /\ reg.outcome \in {"ok", "duplicate", "collision", "policyError"}
        /\ reg.hook = reg.hookBefore
        /\ reg.hook # StackHook

C29_Witness ==
    /\ reg.pc = "done"
    /\ reg.outcome = "policyError"
    /\ reg.hookBefore = AppHook
    /\ reg.hook = AppHook
    /\ reg.passed

====
